---- MODULE Spec2Model ----
(***************************************************************************)
(* Model of teamcard/app.py: the farewell-card form handler (validation,   *)
(* greedy word wrap, placement, write), the card directory (list, delete)  *)
(* and the admin password gate.                                            *)
(*                                                                         *)
(* A Python str is a sequence of one-character strings.  Widths are in     *)
(* thousandths of a point: stringWidth(s, font, size) = size * (sum of the *)
(* font's glyph widths, which the AFM tables give in 1/1000 em).           *)
(***************************************************************************)
EXTENDS Integers, Sequences, FiniteSets, TLC

VARIABLES
    fs,                   \* the filesystem: resolved path -> node
    ADMIN_PASSWORD,       \* module global after startup (app.py:32-57)
    ADMIN_PASSWORD_HASH,  \* module global after startup (app.py:33-57)
    env,                  \* the environment the process was started with
    resp,                 \* the last request and the response it got
    presented,            \* some request so far carried the configured admin password
    pc,                   \* position inside one traced run of index() (layout trace)
    name,                 \* index(): name, after strip()
    message,              \* index(): message, after strip()
    lines,                \* index(): the wrapped lines
    canvas                \* index(): what has been drawn on the overlay canvas

vars == <<fs, ADMIN_PASSWORD, ADMIN_PASSWORD_HASH, env, resp, presented,
          pc, name, message, lines, canvas>>

webVars == <<fs, ADMIN_PASSWORD, ADMIN_PASSWORD_HASH, env, resp, presented>>
layoutVars == <<pc, name, message, lines, canvas>>

-----------------------------------------------------------------------------
(* Python str primitives                                                   *)

\* a function with domain 1..n as a plain sequence
Seq1(f, n) == SubSeq(f, 1, n)

\* ch * n
Rep(ch, n) == Seq1([i \in 1..n |-> ch], n)

\* the characters str.strip() and str.split() treat as whitespace
Whitespace == {" ", "\t", "\n", "\r"}

\* the characters str.splitlines() breaks at
LineBreaks == {"\n", "\r"}

IsBlank(s) == \A i \in 1..Len(s) : s[i] \in Whitespace

\* the k-th smallest element of a finite set of integers
Kth(S, k) == CHOOSE x \in S : Cardinality({y \in S : y <= x}) = k

\* s.strip()
Strip(s) ==
    IF IsBlank(s) THEN <<>>
    ELSE LET first == CHOOSE i \in 1..Len(s) :
                          /\ s[i] \notin Whitespace
                          /\ \A j \in 1..(i - 1) : s[j] \in Whitespace
             last == CHOOSE i \in 1..Len(s) :
                          /\ s[i] \notin Whitespace
                          /\ \A j \in (i + 1)..Len(s) : s[j] \in Whitespace
         IN SubSeq(s, first, last)

\* s.split(): the maximal runs of non-whitespace characters, in order
Split(s) ==
    LET n == Len(s)
        starts == {i \in 1..n : s[i] \notin Whitespace /\ (i = 1 \/ s[i - 1] \in Whitespace)}
        ends == {i \in 1..n : s[i] \notin Whitespace /\ (i = n \/ s[i + 1] \in Whitespace)}
    IN Seq1([k \in 1..Cardinality(starts) |-> SubSeq(s, Kth(starts, k), Kth(ends, k))],
            Cardinality(starts))

\* s.splitlines(): the text between line breaks ("\r\n" is one break); a break
\* at the very end opens no further line
SplitLines(s) ==
    LET n == Len(s)
        \* index of the last character of each line break
        brkEnd == {i \in 1..n : /\ s[i] \in LineBreaks
                                /\ ~(s[i] = "\r" /\ i < n /\ s[i + 1] = "\n")}
        brkStart(e) == IF s[e] = "\n" /\ e > 1 /\ s[e - 1] = "\r" THEN e - 1 ELSE e
        nb == Cardinality(brkEnd)
        count == IF n = 0 THEN 0 ELSE IF n \in brkEnd THEN nb ELSE nb + 1
        from(k) == IF k = 1 THEN 1 ELSE Kth(brkEnd, k - 1) + 1
        to(k) == IF k <= nb THEN brkStart(Kth(brkEnd, k)) - 1 ELSE n
    IN Seq1([k \in 1..count |-> SubSeq(s, from(k), to(k))], count)

\* s.replace(old, new) for one-character old and new
Replace(s, old, new) == Seq1([i \in 1..Len(s) |-> IF s[i] = old THEN new ELSE s[i]], Len(s))

\* s.startswith(prefix) / s.endswith(suffix)
StartsWith(s, prefix) ==
    Len(s) >= Len(prefix) /\ SubSeq(s, 1, Len(prefix)) = prefix

EndsWith(s, suffix) ==
    Len(s) >= Len(suffix) /\ SubSeq(s, Len(s) - Len(suffix) + 1, Len(s)) = suffix

\* code points, for the order sorted() puts strings in
Ord(ch) ==
    CASE ch = "\t" -> 9   [] ch = "\n" -> 10  [] ch = "\r" -> 13  [] ch = " " -> 32
      [] ch = "-" -> 45   [] ch = "." -> 46   [] ch = "/" -> 47
      [] ch = "A" -> 65   [] ch = "B" -> 66   [] ch = "C" -> 67   [] ch = "F" -> 70
      [] ch = "L" -> 76        [] ch = "W" -> 87   [] ch = "_" -> 95
      [] ch = "a" -> 97   [] ch = "b" -> 98   [] ch = "c" -> 99   [] ch = "d" -> 100
      [] ch = "e" -> 101  [] ch = "f" -> 102  [] ch = "i" -> 105  [] ch = "l" -> 108
      [] ch = "m" -> 109  [] ch = "n" -> 110  [] ch = "o" -> 111  [] ch = "p" -> 112
      [] ch = "r" -> 114  [] ch = "s" -> 115  [] ch = "t" -> 116  [] ch = "v" -> 118
      [] ch = "w" -> 119  [] ch = "x" -> 120  [] ch = "y" -> 121

\* s < t as Python compares str: by the first differing code point, a proper
\* prefix first
StrLess(s, t) ==
    \E i \in 1..(Len(t)) :
        /\ i <= Len(s) + 1
        /\ \A j \in 1..(i - 1) : s[j] = t[j]
        /\ (i = Len(s) + 1 \/ Ord(s[i]) < Ord(t[i]))

\* sorted(S) for a set of distinct strings
Sorted(S) ==
    Seq1([k \in 1..Cardinality(S) |->
             CHOOSE s \in S : Cardinality({t \in S : StrLess(t, s)}) = k - 1],
         Cardinality(S))

-----------------------------------------------------------------------------
(* Paths and the filesystem (os.path, os.remove, open)                     *)

CARDS_FOLDER == <<"s", "t", "a", "t", "i", "c", "/", "c", "a", "r", "d", "s">>

TEMPLATE_PATH ==
    <<"F", "a", "r", "e", "w", "e", "l", "l", "_", "C", "a", "r", "d", ".", "p", "d", "f">>

\* os.path.join(a, b)
Join(a, b) ==
    IF StartsWith(b, <<"/">>) THEN b
    ELSE IF a = <<>> \/ EndsWith(a, <<"/">>) THEN a \o b
    ELSE a \o <<"/">> \o b

\* os.path.dirname(p): up to the last "/", trailing slashes dropped unless
\* the head is nothing but slashes
Dirname(p) ==
    LET slashes == {i \in 1..Len(p) : p[i] = "/"}
        i == IF slashes = {} THEN 0 ELSE Kth(slashes, Cardinality(slashes))
        head == SubSeq(p, 1, i)
        keep == {j \in 1..i : head[j] # "/"}
    IN IF keep = {} THEN head
       ELSE SubSeq(head, 1, Kth(keep, Cardinality(keep)))

\* the components of a path string: the text between its slashes
Components(p) ==
    LET n == Len(p)
        seps == {i \in 1..n : p[i] = "/"}
        ns == Cardinality(seps)
        from(k) == IF k = 1 THEN 1 ELSE Kth(seps, k - 1) + 1
        to(k) == IF k <= ns THEN Kth(seps, k) - 1 ELSE n
    IN Seq1([k \in 1..(ns + 1) |-> SubSeq(p, from(k), to(k))], ns + 1)

\* the working directory of the process, as a resolved path
Cwd == << <<"a", "p", "p">> >>

CardsDir == Cwd \o Components(CARDS_FOLDER)

NoSig == [x |-> 0, y |-> 0, text |-> <<>>]
NoData == [state |-> "none", lines |-> <<>>, sig |-> NoSig]
DirNode == [kind |-> "dir", data |-> NoData]
FileNode(d) == [kind |-> "file", data |-> d]

IsDirAt(f, path) == path \in DOMAIN f /\ f[path].kind = "dir"

\* the kernel's walk over the components comps[i..] of a path, from directory
\* cur: "" and "." stay, ".." goes up, a name goes down if it exists; every
\* step needs cur to be a directory (ENOTDIR), a missing name is ENOENT
RECURSIVE Walk(_, _, _, _)
Walk(f, cur, comps, i) ==
    IF i > Len(comps) THEN [ok |-> TRUE, path |-> cur, err |-> "none"]
    ELSE IF ~IsDirAt(f, cur) THEN [ok |-> FALSE, path |-> cur, err |-> "ENOTDIR"]
    ELSE LET c == comps[i] IN
         IF c = <<>> \/ c = <<".">> THEN Walk(f, cur, comps, i + 1)
         ELSE IF c = <<".", ".">>
              THEN Walk(f, IF cur = <<>> THEN cur ELSE SubSeq(cur, 1, Len(cur) - 1),
                        comps, i + 1)
         ELSE IF (cur \o <<c>>) \in DOMAIN f THEN Walk(f, cur \o <<c>>, comps, i + 1)
         ELSE [ok |-> FALSE, path |-> cur \o <<c>>, err |-> "ENOENT"]

Lookup(f, p) ==
    IF p = <<>> THEN [ok |-> FALSE, path |-> <<>>, err |-> "ENOENT"]
    ELSE Walk(f, IF p[1] = "/" THEN <<>> ELSE Cwd, Components(p), 1)

\* os.path.exists(p), os.path.isfile(p)
Exists(f, p) == Lookup(f, p).ok
IsFile(f, p) == \E at \in {Lookup(f, p)} : at.ok /\ f[at.path].kind = "file"

\* os.remove(p) on an existing file
Remove(f, p) == [q \in DOMAIN f \ {Lookup(f, p).path} |-> f[q]]

\* open(p, "wb"): the parent must resolve to a directory (else
\* FileNotFoundError or NotADirectoryError) and the last component must not
\* name a directory (IsADirectoryError); the file then exists and is empty
Open(f, p) ==
    IF p = <<>> THEN [ok |-> FALSE, path |-> <<>>, err |-> "ENOENT"]
    ELSE LET comps == Components(p)
             last == comps[Len(comps)]
             parent == Walk(f, IF p[1] = "/" THEN <<>> ELSE Cwd,
                            SubSeq(comps, 1, Len(comps) - 1), 1)
         IN IF ~parent.ok THEN parent
            ELSE IF ~IsDirAt(f, parent.path)
            THEN [ok |-> FALSE, path |-> parent.path, err |-> "ENOTDIR"]
            ELSE IF \/ last \in {<<>>, <<".">>, <<".", ".">>}
                    \/ IsDirAt(f, parent.path \o <<last>>)
            THEN [ok |-> FALSE, path |-> parent.path, err |-> "EISDIR"]
            ELSE [ok |-> TRUE, path |-> parent.path \o <<last>>, err |-> "none"]

\* the file at resolved path q holding data d
WithFile(f, q, d) == [x \in DOMAIN f \cup {q} |-> IF x = q THEN FileNode(d) ELSE f[x]]

\* os.listdir(CARDS_FOLDER): the names directly inside the directory
ListDir(f) == {q[Len(q)] : q \in {x \in DOMAIN f : Len(x) = Len(CardsDir) + 1
                                                  /\ SubSeq(x, 1, Len(CardsDir)) = CardsDir}}

PdfSuffix == <<".", "p", "d", "f">>

\* sorted([f for f in os.listdir(CARDS_FOLDER) if f.endswith('.pdf')])
ListCards(f) == Sorted({x \in ListDir(f) : EndsWith(x, PdfSuffix)})

-----------------------------------------------------------------------------
(* index(): validation, filename, layout                                   *)

MAX_MESSAGE_CHARS == 2000

message_left == 230
message_right == 670
message_top == 700
message_bottom == 220
line_height == 18

max_width == message_right - message_left

CardSuffix ==
    <<"_", "f", "a", "r", "e", "w", "e", "l", "l", "_", "c", "a", "r", "d", ".", "p", "d", "f">>

\* variant: the checks without the length limit (as before MAX_MESSAGE_CHARS
\* was introduced, app.py:414-415)
ValidationErrorNoLimit(nm, msg) ==
    IF nm = <<>> \/ msg = <<>> THEN "missing" ELSE "none"

\* the checks of app.py:73-77 on the stripped form fields
ValidationError(nm, msg) ==
    IF nm = <<>> \/ msg = <<>> THEN "missing"
    ELSE IF Len(msg) > MAX_MESSAGE_CHARS THEN "too_long"
    ELSE "none"

\* f"{name.replace(' ', '_').replace('/', '_')}_farewell_card.pdf"
\* variant: only the spaces replaced (as in app.py:417)
OutputFilenameSpacesOnly(nm) == Replace(nm, " ", "_") \o CardSuffix

OutputFilename(nm) == Replace(Replace(nm, " ", "_"), "/", "_") \o CardSuffix

\* glyph widths of the two standard fonts used, in 1/1000 em
GlyphWidth(font, ch) ==
    CASE ch \in {" ", ".", "/"} -> 278
      [] ch = "-" -> 333
      [] ch = "_" -> 556
      [] ch = "W" -> 944
      [] ch \in {"A", "B"} -> IF font = "Helvetica-Bold" THEN 722 ELSE 667
      [] ch \in {"i", "l"} -> IF font = "Helvetica-Bold" THEN 278 ELSE 222
      [] ch \in {"a", "e"} -> 556
      [] ch \in {"c", "v"} -> IF font = "Helvetica-Bold" THEN 556 ELSE 500
      [] ch \in {"d", "o", "L"} -> IF font = "Helvetica-Bold" THEN 611 ELSE 556

RECURSIVE SumGlyphs(_, _, _)
SumGlyphs(chars, s, font) ==
    IF chars = {} THEN 0
    ELSE LET ch == CHOOSE x \in chars : TRUE
         IN GlyphWidth(font, ch) * Cardinality({i \in 1..Len(s) : s[i] = ch})
            + SumGlyphs(chars \ {ch}, s, font)

\* c.stringWidth(s, font, size), in thousandths of a point
StringWidth(s, font, size) == size * SumGlyphs({s[i] : i \in 1..Len(s)}, s, font)

\* variant: the width compared with message_right instead of max_width
FitsMessageRight(test_line) == StringWidth(test_line, "Helvetica", 12) < message_right * 1000

\* c.stringWidth(test_line, "Helvetica", 12) < max_width
Fits(test_line) == StringWidth(test_line, "Helvetica", 12) < max_width * 1000

\* lines.append(current_line.strip()) when current_line is not empty
Flush(out, current_line) ==
    IF current_line # <<>> THEN Append(out, Strip(current_line)) ELSE out

\* the loop over the words of one paragraph (app.py:111-121); out is `lines`
RECURSIVE WrapWords(_, _, _, _)
WrapWords(words, i, current_line, out) ==
    IF i > Len(words) THEN Flush(out, current_line)
    ELSE LET word == words[i]
             test_line == current_line \o word \o <<" ">>
         IN IF Fits(test_line)
            THEN WrapWords(words, i + 1, test_line, out)
            ELSE WrapWords(words, i + 1, word \o <<" ">>, Flush(out, current_line))

\* the loop over the paragraphs (app.py:109-110)
RECURSIVE WrapParagraphs(_, _, _)
WrapParagraphs(paragraphs, k, out) ==
    IF k > Len(paragraphs) THEN out
    ELSE WrapParagraphs(paragraphs, k + 1, WrapWords(Split(paragraphs[k]), 1, <<>>, out))

\* variant: the message wrapped as one paragraph (as in app.py:268-281)
WrapWholeMessage(msg) == WrapWords(Split(msg), 1, <<>>, <<>>)

\* lines, from message (app.py:106-121)
WrapMessage(msg) == WrapParagraphs(SplitLines(msg), 1, <<>>)

\* variant: the quotient rounded up
MaxLinesRoundedUp == (message_top - message_bottom + line_height - 1) \div line_height

\* max_lines = int((message_top - message_bottom) / line_height)
MaxLines == (message_top - message_bottom) \div line_height

\* lines[:n]
Slice(ls, n) == SubSeq(ls, 1, IF Len(ls) < n THEN Len(ls) ELSE n)

\* the drawing loop (app.py:127-131) over ls = lines[:max_lines], from index i
RECURSIVE DrawLines(_, _, _)
DrawLines(ls, i, drawn) ==
    IF i >= Len(ls) THEN drawn
    ELSE LET current_y == message_top - (i * line_height)
         IN IF current_y < message_bottom THEN drawn
            ELSE DrawLines(ls, i + 1,
                           Append(drawn, [x |-> message_left, y |-> current_y, text |-> ls[i + 1]]))

\* name_y (app.py:134-138)
NameY(ls) ==
    IF ls # <<>>
    THEN LET last_line_y == message_top - ((Len(Slice(ls, MaxLines)) - 1) * line_height)
         IN last_line_y - 25
    ELSE 200

\* the signature (app.py:140-144); x in thousandths of a point
Signature(nm, ls) ==
    LET name_text == <<"-", " ">> \o nm
        name_width == StringWidth(name_text, "Helvetica-Bold", 14)
    IN [x |-> (message_right * 1000) - name_width - (10 * 1000),
        y |-> NameY(ls),
        text |-> name_text]

\* the overlay drawn from the wrapped lines ls (app.py:125-146)
OverlayOf(nm, ls) ==
    [state |-> "complete",
     lines |-> DrawLines(Slice(ls, MaxLines), 0, <<>>),
     sig |-> Signature(nm, ls)]

\* the overlay drawn for a validated request
Overlay(nm, msg) == OverlayOf(nm, WrapMessage(msg))

\* what open(..., "wb") leaves before writer.write has finished
Partial == [state |-> "partial", lines |-> <<>>, sig |-> NoSig]

-----------------------------------------------------------------------------
(* Startup: the admin secret (app.py:32-57)                                *)

\* Python's None; no str equals it
None == <<"None">>

Truthy(v) == v # None /\ v # <<>>

Pbkdf2Prefix == <<"p", "b", "k", "d", "f", "2", ":", "s", "h", "a", "2", "5", "6", ":">>

\* generate_password_hash(p, method="pbkdf2:sha256", salt_length=16): a string
\* in werkzeug's format that stands for p and for nothing else (the salt and
\* the digest are abstracted to the password they were made from)
GeneratePasswordHash(p) == Pbkdf2Prefix \o <<"$">> \o p

\* the module globals after the startup block has run on environment e
Startup(e) ==
    IF Truthy(e.ADMIN_PASSWORD_HASH)
    THEN [ADMIN_PASSWORD |-> e.ADMIN_PASSWORD, ADMIN_PASSWORD_HASH |-> e.ADMIN_PASSWORD_HASH]
    ELSE IF Truthy(e.ADMIN_PASSWORD)
         THEN IF StartsWith(e.ADMIN_PASSWORD, Pbkdf2Prefix)
              THEN [ADMIN_PASSWORD |-> None, ADMIN_PASSWORD_HASH |-> e.ADMIN_PASSWORD]
              ELSE [ADMIN_PASSWORD |-> None,
                    ADMIN_PASSWORD_HASH |-> GeneratePasswordHash(e.ADMIN_PASSWORD)]
         ELSE [ADMIN_PASSWORD |-> e.ADMIN_PASSWORD, ADMIN_PASSWORD_HASH |-> None]

\* `password != ADMIN_PASSWORD` is false (app.py:177)
PasswordAccepted(password, admin_password) == password = admin_password

-----------------------------------------------------------------------------
(* Inputs                                                                  *)

NameA == <<"A">>
NameAda == <<"A", "d", "a", " ", "L", "o", "v", "e", "l", "a", "c", "e">>
NameAdaSlash == <<"A", "d", "a", "/", "L", "o", "v", "e", "l", "a", "c", "e">>
NameTraversal == <<".", ".", "/", "A">>

Names == {<<>>, <<" ">>, NameA, <<" ">> \o NameA \o <<" ">>, NameAda, NameAdaSlash,
          NameTraversal}

MessageHi == <<"W", "i">>
MessageTwo == <<" ", "W", " ", "i", "\r", "\n", "W", "\n">>
MessageTooLong == Rep("i", MAX_MESSAGE_CHARS + 1)

Forms == (Names \X {<<>>, <<" ", "\n">>, MessageHi, MessageTwo})
         \cup {<<NameA, <<" ">> \o MessageTooLong \o <<"\n">>>>}

\* where an exception of the environment or of a library strikes a request
\* that passed validation: nowhere, before output_path is opened
\* (app.py:83-154), or in writer.write(f) after it was opened (app.py:157)
Faults == {"none", "render", "write"}

\* the submissions explored: every form served without a fault, and the
\* faults on some forms that pass validation
Submissions ==
    (Forms \X {"none"})
    \cup (({NameA, NameAda} \X {MessageHi}) \X {"render", "write"})

CardA == OutputFilename(NameA)
CardAda == OutputFilename(NameAda)
Notes == <<"n", "o", "t", "e", "s">>
Old == <<"o", "l", "d">>

DeleteNames ==
    {CardA, CardAda, Notes, <<>>, <<".", ".">>, Old, Old \o <<"/">> \o CardA,
     <<".", "/">> \o CardA,
     <<".", ".", "/", ".", ".", "/">> \o TEMPLATE_PATH,
     <<"/", "a", "p", "p", "/">> \o TEMPLATE_PATH}

PasswordA == <<"a">>
PasswordB == <<"b">>

Passwords == {<<>>, PasswordA, PasswordB, GeneratePasswordHash(PasswordA)}

Envs == [ADMIN_PASSWORD : {None, <<>>, PasswordA, PasswordB, GeneratePasswordHash(PasswordA)},
         ADMIN_PASSWORD_HASH : {None, <<>>, GeneratePasswordHash(PasswordA)}]

NoEnv == [ADMIN_PASSWORD |-> None, ADMIN_PASSWORD_HASH |-> None]

-----------------------------------------------------------------------------
(* State                                                                   *)

TemplateFile == Cwd \o <<TEMPLATE_PATH>>

TemplateData == [state |-> "template", lines |-> <<>>, sig |-> NoSig]
OtherData == [state |-> "other", lines |-> <<>>, sig |-> NoSig]

\* the tree the process starts in: the working directory with static/cards
\* (os.makedirs, app.py:21), which holds one file that is no card and a
\* directory with a card set aside in it
BaseFs ==
    [q \in {<<>>, Cwd, SubSeq(CardsDir, 1, 2), CardsDir, CardsDir \o <<Notes>>,
            CardsDir \o <<Old>>, CardsDir \o <<Old, CardA>>} |->
        IF q \in {CardsDir \o <<Notes>>, CardsDir \o <<Old, CardA>>}
        THEN FileNode(OtherData)
        ELSE DirNode]

Response(op, nm, msg, fault, filename, password, view, error, cards) ==
    [op |-> op, name |-> nm, message |-> msg, fault |-> fault, filename |-> filename,
     password |-> password, view |-> view, error |-> error, cards |-> cards]

NoResponse == Response("none", <<>>, <<>>, "none", <<>>, <<>>, "none", "none", <<>>)

NoCanvas == [state |-> "none", lines |-> <<>>, sig |-> NoSig]

\* p is what the startup comments mean the admin password to be under e: what
\* the given hash was made from, else the plaintext (itself a hash if it looks
\* like one)
Configured(e, p) ==
    IF Truthy(e.ADMIN_PASSWORD_HASH) THEN e.ADMIN_PASSWORD_HASH = GeneratePasswordHash(p)
    ELSE IF Truthy(e.ADMIN_PASSWORD)
         THEN IF StartsWith(e.ADMIN_PASSWORD, Pbkdf2Prefix)
              THEN e.ADMIN_PASSWORD = GeneratePasswordHash(p)
              ELSE e.ADMIN_PASSWORD = p
         ELSE FALSE

InitWeb(envs, templates) ==
    /\ env \in envs
    /\ ADMIN_PASSWORD = Startup(env).ADMIN_PASSWORD
    /\ ADMIN_PASSWORD_HASH = Startup(env).ADMIN_PASSWORD_HASH
    /\ \E t \in templates :
           fs = IF t THEN WithFile(BaseFs, TemplateFile, TemplateData) ELSE BaseFs
    /\ resp = NoResponse
    /\ presented = FALSE

LayoutIdle ==
    /\ pc = "idle"
    /\ name = <<>>
    /\ message = <<>>
    /\ lines = <<>>
    /\ canvas = NoCanvas

-----------------------------------------------------------------------------
(* Request handlers                                                        *)

\* POST / (app.py:67-164).  The handler's locals are bound once each, in
\* the order the code computes them.
IndexPost(rawName, rawMessage, fault) ==
    \E nm \in {Strip(rawName)}, msg \in {Strip(rawMessage)} :
    \E invalid \in {ValidationError(nm, msg)} :
    \E output_path \in {Join(CARDS_FOLDER, OutputFilename(nm))} :
    \E out \in {IF invalid = "none" THEN Open(fs, output_path) ELSE Lookup(fs, <<>>)} :
       /\ IF invalid # "none"
          THEN /\ resp' = Response("index_post", rawName, rawMessage, fault, <<>>, <<>>,
                                   "form_error", invalid, <<>>)
               /\ fs' = fs
          ELSE IF ~IsFile(fs, TEMPLATE_PATH)
          THEN /\ resp' = Response("index_post", rawName, rawMessage, fault, <<>>, <<>>,
                                   "form_error", "template_not_found", <<>>)
               /\ fs' = fs
          ELSE IF fault = "render"
          THEN /\ resp' = Response("index_post", rawName, rawMessage, fault, <<>>, <<>>,
                                   "form_error", "generating", <<>>)
               /\ fs' = fs
          ELSE IF ~out.ok
          THEN /\ resp' = Response("index_post", rawName, rawMessage, fault, <<>>, <<>>,
                                   "form_error",
                                   IF out.err = "ENOENT" THEN "template_not_found"
                                   ELSE "generating",
                                   <<>>)
               /\ fs' = fs
          ELSE IF fault = "write"
          THEN /\ resp' = Response("index_post", rawName, rawMessage, fault, <<>>, <<>>,
                                   "form_error", "generating", <<>>)
               /\ fs' = WithFile(fs, out.path, Partial)
          ELSE /\ resp' = Response("index_post", rawName, rawMessage, fault, <<>>, <<>>,
                                   "redirect_index", "none", <<>>)
               /\ fs' = WithFile(fs, out.path, Overlay(nm, msg))
       /\ UNCHANGED <<ADMIN_PASSWORD, ADMIN_PASSWORD_HASH, env, presented>>
       /\ UNCHANGED layoutVars

\* GET / (app.py:166-167)
IndexGet ==
    /\ resp' = Response("index_get", <<>>, <<>>, "none", <<>>, <<>>, "index", "none",
                        ListCards(fs))
    /\ UNCHANGED <<fs, ADMIN_PASSWORD, ADMIN_PASSWORD_HASH, env, presented>>
    /\ UNCHANGED layoutVars

\* GET /admin (app.py:181)
AdminGet ==
    /\ resp' = Response("admin_get", <<>>, <<>>, "none", <<>>, <<>>, "admin_form", "none", <<>>)
    /\ UNCHANGED <<fs, ADMIN_PASSWORD, ADMIN_PASSWORD_HASH, env, presented>>
    /\ UNCHANGED layoutVars

\* POST /admin with form field password (app.py:175-180)
AdminPost(password) ==
    /\ IF ~PasswordAccepted(password, ADMIN_PASSWORD)
       THEN resp' = Response("admin_post", <<>>, <<>>, "none", <<>>, password,
                             "admin_error", "invalid_password", <<>>)
       ELSE resp' = Response("admin_post", <<>>, <<>>, "none", <<>>, password,
                             "admin_listing", "none", ListCards(fs))
    /\ presented' = (presented \/ Configured(env, password))
    /\ UNCHANGED <<fs, ADMIN_PASSWORD, ADMIN_PASSWORD_HASH, env>>
    /\ UNCHANGED layoutVars

\* variant: existence alone (as in app.py:503)
DeleteAllowedIfExists(f, filepath) == Exists(f, filepath)

\* the test of app.py:186 on filepath
DeleteAllowed(f, filepath) ==
    /\ Exists(f, filepath)
    /\ IsFile(f, filepath)
    /\ Dirname(filepath) = CARDS_FOLDER

\* POST /delete/<filename> (app.py:184-188); password is a form field the
\* request may carry, which the handler does not read
DeleteCard(filename, password) ==
    LET filepath == Join(CARDS_FOLDER, filename)
    IN /\ fs' = IF DeleteAllowed(fs, filepath) THEN Remove(fs, filepath) ELSE fs
       /\ resp' = Response("delete", <<>>, <<>>, "none", filename, password,
                           "redirect_admin", "none", <<>>)
       /\ presented' = (presented \/ Configured(env, password))
       /\ UNCHANGED <<ADMIN_PASSWORD, ADMIN_PASSWORD_HASH, env>>
       /\ UNCHANGED layoutVars

-----------------------------------------------------------------------------
(* The card store: submissions, listing, deletion                          *)

Init ==
    /\ InitWeb({NoEnv}, {TRUE, FALSE})
    /\ LayoutIdle

Next ==
    \/ \E sub \in Submissions : IndexPost(sub[1][1], sub[1][2], sub[2])
    \/ IndexGet
    \/ \E filename \in DeleteNames : DeleteCard(filename, <<>>)

Spec == Init /\ [][Next]_vars

-----------------------------------------------------------------------------
(* Properties of the card store                                            *)

Range(s) == {s[i] : i \in 1..Len(s)}

\* the number of characters left when the whitespace before the first and
\* after the last non-whitespace character is not counted
TrimmedLen(s) ==
    LET n == Len(s)
        leading == Cardinality({i \in 1..n : \A j \in 1..i : s[j] \in Whitespace})
        trailing == Cardinality({i \in 1..n : \A j \in i..n : s[j] \in Whitespace})
    IN IF leading = n THEN 0 ELSE n - leading - trailing

InvalidForm(rawName, rawMessage) ==
    \/ TrimmedLen(rawName) = 0
    \/ TrimmedLen(rawMessage) = 0
    \/ TrimmedLen(rawMessage) > MAX_MESSAGE_CHARS

\* the files (not the directories) of a filesystem
Files(f) == {q \in DOMAIN f : f[q].kind = "file"}

\* C1: a POST / whose name or message is empty after trimming, or whose
\* trimmed message has more than 2000 characters, is answered with a
\* validation error and leaves every file of the filesystem as it was.
C1_InvalidSubmissionWritesNothing ==
    [][(resp'.op = "index_post" /\ InvalidForm(resp'.name, resp'.message))
           => /\ resp'.view = "form_error"
              /\ resp'.error \in {"missing", "too_long"}
              /\ fs' = fs]_vars

\* C1 has happened: a message of 2001 characters after trimming was refused
\* while a card written earlier is in the store.
C1_Witness ==
    /\ resp.op = "index_post"
    /\ TrimmedLen(resp.message) = MAX_MESSAGE_CHARS + 1
    /\ resp.error = "too_long"
    /\ CardsDir \o <<CardA>> \in DOMAIN fs

TraversalName == <<".", ".", "/", ".", ".", "/">> \o TEMPLATE_PATH

\* the target of delete(filename) is missing, no regular file, or resolves
\* to a place that is not directly inside the card directory
InvalidTarget(f, filename) ==
    LET at == Lookup(f, Join(CARDS_FOLDER, filename))
    IN \/ ~at.ok
       \/ f[at.path].kind # "file"
       \/ at.path = <<>>
       \/ SubSeq(at.path, 1, Len(at.path) - 1) # CardsDir

\* C2: whatever filename delete is given, the only thing a step can remove is
\* the regular file of exactly that name directly inside the card directory;
\* a delete changes nothing else, and changes nothing at all when its target
\* is missing, no regular file, or not inside the card directory.
C2_DeleteStaysInsideCardsDir ==
    [][/\ \A q \in DOMAIN fs :
              q \notin DOMAIN fs'
                  => /\ resp'.op = "delete"
                     /\ q = CardsDir \o <<resp'.filename>>
                     /\ fs[q].kind = "file"
       /\ resp'.op = "delete"
              => /\ DOMAIN fs' \subseteq DOMAIN fs
                 /\ \A q \in DOMAIN fs' : fs'[q] = fs[q]
                 /\ InvalidTarget(fs, resp'.filename) => fs' = fs]_vars

\* C2 has happened: delete was called with a name that climbs out of the card
\* directory to the template, and the template is still there.
C2_Witness ==
    /\ resp.op = "delete"
    /\ resp.filename = TraversalName
    /\ Lookup(fs, Join(CARDS_FOLDER, TraversalName)).path = TemplateFile
    /\ TemplateFile \in Files(fs)

\* C6: a submission that passed validation and ended in an error (template
\* missing, or a fault up to and including the write of the document) leaves
\* the filesystem as it was.
C6_FailedSubmissionLeavesStoreUnchanged ==
    [][(/\ resp'.op = "index_post"
        /\ resp'.view = "form_error"
        /\ resp'.error \in {"template_not_found", "generating"})
           => fs' = fs]_vars

\* n with every space and every "/" turned into "_", then the suffix
ExpectedFilename(n) ==
    [i \in 1..(Len(n) + Len(CardSuffix)) |->
        IF i > Len(n) THEN CardSuffix[i - Len(n)]
        ELSE IF n[i] \in {" ", "/"} THEN "_"
        ELSE n[i]]

AdaLovelaceCard ==
    <<"A", "d", "a", "_", "L", "o", "v", "e", "l", "a", "c", "e",
      "_", "f", "a", "r", "e", "w", "e", "l", "l", "_", "c", "a", "r", "d", ".", "p", "d", "f">>

\* the path of the card a submission with (trimmed) name n is to produce
ExpectedCard(n) == CardsDir \o <<Seq1(ExpectedFilename(n), Len(n) + Len(CardSuffix))>>

\* the spec's example: "Ada Lovelace" gives Ada_Lovelace_farewell_card.pdf
AdaLovelaceExample == ExpectedCard(NameAda) = CardsDir \o <<AdaLovelaceCard>>

\* the names directly inside the card directory that end in ".pdf"
StoredCards(f) ==
    {q[Len(q)] : q \in {x \in DOMAIN f : /\ Len(x) = Len(CardsDir) + 1
                                         /\ SubSeq(x, 1, Len(CardsDir)) = CardsDir
                                         /\ EndsWith(x[Len(x)], PdfSuffix)}}

\* C7: a successful submission with (trimmed) name n writes the one file
\* n[" " and "/" -> "_"]_farewell_card.pdf directly inside the card directory,
\* in whole and signed "- n", adding no other file and replacing an earlier
\* card of that name; a listing holds exactly the stored card names in
\* strictly ascending code-point order; a delete of a stored card's filename
\* takes it out of the store, so a later listing does not return it.
C7_WriteListDeleteRoundTrip ==
    [][/\ AdaLovelaceExample
       /\ (resp'.op = "index_post" /\ resp'.view = "redirect_index")
              => \E n \in {Strip(resp'.name)} : \E card \in {ExpectedCard(n)} :
                    /\ DOMAIN fs' = DOMAIN fs \cup {card}
                    /\ fs'[card].kind = "file"
                    /\ fs'[card].data.state = "complete"
                    /\ fs'[card].data.sig.text = <<"-", " ">> \o n
                    /\ \A q \in DOMAIN fs \ {card} : fs'[q] = fs[q]
       /\ resp'.op = "index_get"
              => /\ Range(resp'.cards) = StoredCards(fs')
                 /\ \A i \in 1..(Len(resp'.cards) - 1) :
                        StrLess(resp'.cards[i], resp'.cards[i + 1])
       /\ (resp'.op = "delete" /\ resp'.filename \in StoredCards(fs))
              => resp'.filename \notin StoredCards(fs')]_vars

\* C7 has happened: a listing returned Ada Lovelace's card, in order, among
\* several stored cards.
C7_Witness ==
    /\ resp.op = "index_get"
    /\ Len(resp.cards) >= 3
    /\ resp.cards[3] = AdaLovelaceCard
    /\ fs[CardsDir \o <<AdaLovelaceCard>>].data.sig.text = <<"-", " ">> \o NameAdaSlash

-----------------------------------------------------------------------------
(* The admin gate: every startup environment, the admin form, deletion     *)

InitAdmin ==
    /\ InitWeb(Envs, {TRUE})
    /\ LayoutIdle

NextAdmin ==
    \/ AdminGet
    \/ \E password \in Passwords : AdminPost(password)
    \/ \E filename \in {CardA, Notes}, password \in {<<>>, PasswordB} :
           DeleteCard(filename, password)
    \/ IndexPost(NameA, MessageHi, "none")
    \/ IndexGet

SpecAdmin == InitAdmin /\ [][NextAdmin]_vars

\* C3: a card leaves the store only if some request so far, this one
\* included, carried the configured admin password.
C3_DeleteNeedsAdminPassword ==
    [][(\E card \in StoredCards(fs) : card \notin StoredCards(fs')) => presented']_vars

\* C4: with an admin secret configured, a POST /admin with the password that
\* secret stands for is answered with the authorized listing of the cards.
C4_ConfiguredPasswordOpensListing ==
    (resp.op = "admin_post" /\ Configured(env, resp.password))
        => /\ resp.view = "admin_listing"
           /\ Range(resp.cards) = StoredCards(fs)

\* C5: a POST /admin with a password that is not the configured admin
\* password is answered with the error view and no listing; with no secret
\* configured that is every password.
C5_WrongPasswordSeesNoListing ==
    (resp.op = "admin_post" /\ ~Configured(env, resp.password))
        => /\ resp.view = "admin_error"
           /\ resp.cards = <<>>

-----------------------------------------------------------------------------
(* The layout of one submission, step by step                              *)

MaxPieces == 3
MaxRepeat == 28

W10 == Rep("W", 10)
W20 == Rep("W", 20)
W18ii == Rep("W", 18) \o <<"i", "i">>
W38 == Rep("W", 38)
W38iii == Rep("W", 38) \o <<"i", "i", "i">>
W39 == Rep("W", 39)

Pieces == {<<" ">>, <<"\n">>, W10, W20, W18ii, W38, W38iii, W39}

RECURSIVE PieceTexts(_)
PieceTexts(k) ==
    IF k = 0 THEN {<<>>}
    ELSE PieceTexts(k - 1) \cup {m \o piece : m \in PieceTexts(k - 1), piece \in Pieces}

\* unit * k
Repeat(unit, k) ==
    Seq1([i \in 1..(k * Len(unit)) |-> unit[((i - 1) % Len(unit)) + 1]], k * Len(unit))

LayoutMessages ==
    PieceTexts(MaxPieces)
    \cup {Repeat(unit, k) : unit \in {W10 \o <<"\r", "\n">>, W20 \o <<" ">>}, k \in 1..MaxRepeat}
    \cup {Rep("i", MAX_MESSAGE_CHARS), <<"\n">> \o Rep("i", MAX_MESSAGE_CHARS + 1)}

InitLayout ==
    /\ InitWeb({NoEnv}, {TRUE})
    /\ pc = "request"
    /\ name \in {<<" ">> \o NameA}
    /\ message \in LayoutMessages
    /\ lines = <<>>
    /\ canvas = NoCanvas

\* app.py:68-77
ReadForm ==
    /\ pc = "request"
    /\ name' = Strip(name)
    /\ message' = Strip(message)
    /\ pc' = IF ValidationError(Strip(name), Strip(message)) = "none" THEN "wrap" ELSE "rejected"
    /\ UNCHANGED <<lines, canvas>>
    /\ UNCHANGED webVars

\* app.py:106-121
WrapLines ==
    /\ pc = "wrap"
    /\ lines' = WrapMessage(message)
    /\ pc' = "draw"
    /\ UNCHANGED <<name, message, canvas>>
    /\ UNCHANGED webVars

\* app.py:125-146
Draw ==
    /\ pc = "draw"
    /\ canvas' = OverlayOf(name, lines)
    /\ pc' = "done"
    /\ UNCHANGED <<name, message, lines>>
    /\ UNCHANGED webVars

NextLayout == ReadForm \/ WrapLines \/ Draw

SpecLayout == InitLayout /\ [][NextLayout]_vars

Wrapped == pc \in {"draw", "done"}

MessageWidth(s) == StringWidth(s, "Helvetica", 12)

\* C8: if no word of the message is wider than max_width, every wrapped line
\* is narrower than max_width.
C8_LinesNarrowerThanMaxWidth ==
    (/\ Wrapped
     /\ \A word \in Range(Split(message)) : MessageWidth(word) <= max_width * 1000)
        => \A line \in Range(lines) : MessageWidth(line) < max_width * 1000

\* C8 has happened: a line begins with a word that is narrower than max_width
\* but reaches it with its trailing space; the next word went to a new line.
C8_Witness ==
    /\ pc = "done"
    /\ \A word \in Range(Split(message)) : MessageWidth(word) <= max_width * 1000
    /\ Len(lines) = 2
    /\ lines[1] = W38iii
    /\ MessageWidth(W38iii) < max_width * 1000
    /\ MessageWidth(W38iii \o <<" ">>) >= max_width * 1000

RECURSIVE JoinWords(_)
JoinWords(ws) ==
    IF ws = <<>> THEN <<>>
    ELSE IF Len(ws) = 1 THEN ws[1]
    ELSE ws[1] \o <<" ">> \o JoinWords(Tail(ws))

\* the words from..to of ws, joined by single spaces, measure below
\* max_width; with trailing, one more space is measured at the end
Below(ws, from, to, trailing) ==
    MessageWidth(JoinWords(SubSeq(ws, from, to)) \o (IF trailing THEN <<" ">> ELSE <<>>))
        < max_width * 1000

\* the greedy lines of the words ws[from..]: each the longest run of the
\* remaining words that measures below max_width, or one word if none does
RECURSIVE GreedyLines(_, _, _)
GreedyLines(ws, from, trailing) ==
    IF from > Len(ws) THEN <<>>
    ELSE LET to == CHOOSE k \in from..Len(ws) :
                       /\ k = from \/ Below(ws, from, k, trailing)
                       /\ \A j \in (k + 1)..Len(ws) : ~Below(ws, from, j, trailing)
         IN <<JoinWords(SubSeq(ws, from, to))>> \o GreedyLines(ws, to + 1, trailing)

RECURSIVE GreedyParagraphs(_, _, _)
GreedyParagraphs(paragraphs, k, trailing) ==
    IF k > Len(paragraphs) THEN <<>>
    ELSE GreedyLines(Split(paragraphs[k]), 1, trailing)
         \o GreedyParagraphs(paragraphs, k + 1, trailing)

RECURSIVE WordsOf(_)
WordsOf(ls) == IF ls = <<>> THEN <<>> ELSE Split(Head(ls)) \o WordsOf(Tail(ls))

\* C9 as stated: the lines are, paragraph by paragraph, the longest runs of
\* the remaining words whose width joined by single spaces is below
\* max_width (or one word), and their words are the message's words in order.
C9_GreedyByJoinedWidth ==
    Wrapped => /\ lines = GreedyParagraphs(SplitLines(message), 1, FALSE)
               /\ WordsOf(lines) = Split(message)

\* C9, amended: the same with the width of a run measured as the loop does,
\* with one trailing space after its last word.
C9_GreedyByWidthWithTrailingSpace ==
    Wrapped => /\ lines = GreedyParagraphs(SplitLines(message), 1, TRUE)
               /\ WordsOf(lines) = Split(message)

\* C9 has happened: two words that fit on a line when joined, but not with
\* the trailing space, were put on two lines.
C9_Witness ==
    /\ pc = "done"
    /\ message = W20 \o <<" ">> \o W18ii
    /\ MessageWidth(message) < max_width * 1000
    /\ lines = <<W20, W18ii>>

\* floor((message_top - message_bottom) / line_height)
FloorMaxLines ==
    CHOOSE m \in 0..(message_top - message_bottom) :
        /\ m * line_height <= message_top - message_bottom
        /\ (m + 1) * line_height > message_top - message_bottom

\* C10: exactly the first min(n, max_lines) of the n wrapped lines are
\* drawn, line i at message_top - i * line_height and never below
\* message_bottom, and the signature is 25 below the last drawn line.
C10_DrawnLinesAndSignature ==
    pc = "done" =>
        LET k == IF Len(lines) < FloorMaxLines THEN Len(lines) ELSE FloorMaxLines
        IN /\ k >= 1
           /\ Len(canvas.lines) = k
           /\ \A i \in 0..(k - 1) :
                  /\ canvas.lines[i + 1].text = lines[i + 1]
                  /\ canvas.lines[i + 1].y = message_top - i * line_height
                  /\ canvas.lines[i + 1].y >= message_bottom
           /\ canvas.sig.y = canvas.lines[k].y - 25

\* C10 has happened: more lines were wrapped than fit, and the box is full.
C10_Witness ==
    /\ pc = "done"
    /\ Len(lines) > FloorMaxLines
    /\ Len(canvas.lines) = FloorMaxLines
    /\ canvas.sig.y = canvas.lines[FloorMaxLines].y - 25

====
